---- MODULE Spec2Model ----
(***************************************************************************)
(* pkmn: fuzzy lookup of a Pokemon by name.                                *)
(*                                                                         *)
(* The model covers the three entry points of the crate:                   *)
(*   - pokedex.rs  search_by_name(query, limit)   (library ranking)        *)
(*   - main.rs     main -> dex(query)             (binary)                 *)
(*   - pokedex.rs  MatchScore::new(value, query)  (the scorer on its own)  *)
(*                                                                         *)
(* Strings are sequences of one-character strings.  f64 similarities are   *)
(* modelled as exact fractions [num, den] in lowest terms, with            *)
(* [num |-> 0, den |-> 0] standing for NaN.  The two metrics come from the *)
(* strsim crate (levenshtein, jaro_winkler); they are modelled after       *)
(* strsim 0.10's generic_levenshtein / generic_jaro / generic_jaro_winkler *)
(* as called at pokedex.rs:113-114 and main.rs:71-72.                      *)
(***************************************************************************)
EXTENDS Integers, Sequences, FiniteSets, TLC

\* ---------------------------------------------------------------- bounds
MaxRows == 2
MaxNameLen == 1
MaxQueryLen == 1
MaxStrLen == 5

\* characters of names and queries in the ranking entry points
Alphabet == {"a", "A", " "}
\* characters of the strings handed to MatchScore::new directly
ScoreAlphabet == {"a", "b"}

\* all strings over chars of length at most n
StringsUpTo(chars, n) == UNION {[1 .. k -> chars] : k \in 0 .. n}

Names == StringsUpTo(Alphabet, MaxNameLen)
Queries == StringsUpTo(Alphabet, MaxQueryLen)
ScoreStrings == StringsUpTo(ScoreAlphabet, MaxStrLen)
Limits == 0 .. (MaxRows + 1)

Min(x, y) == IF x <= y THEN x ELSE y
Max(x, y) == IF x >= y THEN x ELSE y

\* ---------------------------------------------------------------- f64
RECURSIVE GCD(_, _)
GCD(x, y) == IF y = 0 THEN x ELSE GCD(y, x % y)

NaN == [num |-> 0, den |-> 0]
IsNaN(x) == x.den = 0

\* n / d for n >= 0, d >= 0; 0/0 is NaN
Frac(n, d) ==
    IF d = 0 THEN NaN
    ELSE LET g == GCD(n, d) IN [num |-> n \div g, den |-> d \div g]

Zero == Frac(0, 1)
One == Frac(1, 1)

\* f64::partial_cmp: None when either side is NaN
partial_cmp(x, y) ==
    IF IsNaN(x) \/ IsNaN(y) THEN "None"
    ELSE IF x.num * y.den < y.num * x.den THEN "Less"
    ELSE IF x.num * y.den > y.num * x.den THEN "Greater"
    ELSE "Equal"

\* usize::cmp
cmp(x, y) == IF x < y THEN "Less" ELSE IF x > y THEN "Greater" ELSE "Equal"

\* ---------------------------------------------------------------- strings
to_lowercase_char(c) == IF c = "A" THEN "a" ELSE c

\* str::to_lowercase
to_lowercase(s) == [i \in 1 .. Len(s) |-> to_lowercase_char(s[i])]

\* ---------------------------------------------------------------- strsim
\* a pass that only ever looks at the cell above (insertions and deletions
\* are counted, the diagonal is not)
lev_row_no_diagonal(a_elem, b, i, cache) ==
    LET r[j \in 0 .. Len(b)] ==
            IF j = 0 THEN i
            ELSE IF a_elem = b[j]
                 THEN (IF j = 1 THEN i - 1 ELSE cache[j - 1])
                 ELSE cache[j] + 1
    IN  r

\* one pass of generic_levenshtein's inner loop over b, for the i-th element
\* of a (1-based): r[j] is `result` after column j, r[0] its start value;
\* the diagonal `distance_b` is the old cache entry to the left
lev_row(a_elem, b, i, cache) ==
    LET r[j \in 0 .. Len(b)] ==
            IF j = 0 THEN i
            ELSE LET cost == IF a_elem = b[j] THEN 0 ELSE 1
                     distance_a == (IF j = 1 THEN i - 1 ELSE cache[j - 1]) + cost
                     distance_b == cache[j]
                 IN  Min(r[j - 1] + 1, Min(distance_a, distance_b + 1))
    IN  r

\* the outer loop; the new cache is built as a sequence before the next pass
RECURSIVE lev_outer(_, _, _, _)
lev_outer(a, b, i, cache) ==
    LET r == lev_row(a[i], b, i, cache)
    IN  IF i = Len(a) THEN r[Len(b)]
        ELSE lev_outer(a, b, i + 1, <<>> \o [j \in 1 .. Len(b) |-> r[j]])

\* strsim::levenshtein
levenshtein(a, b) ==
    IF Len(a) = 0 THEN Len(b)
    ELSE lev_outer(a, b, 1, [j \in 1 .. Len(b) |-> j])

\* matching loop of generic_jaro; indices i, j are 1-based here,
\* st = [consumed, matches, transpositions, b_match_index]
RECURSIVE jaro_scan(_, _, _, _, _)
jaro_scan(a, b, search_range, i, st) ==
    IF i > Len(a) THEN st
    ELSE LET i0 == i - 1
             min_bound == IF i0 > search_range THEN i0 - search_range ELSE 0
             max_bound == Min(Len(b) - 1, i0 + search_range)
             hits == {j \in min_bound .. max_bound :
                         b[j + 1] = a[i] /\ j \notin st.consumed}
         IN  IF hits = {} THEN jaro_scan(a, b, search_range, i + 1, st)
             ELSE LET j == CHOOSE h \in hits : \A k \in hits : h <= k
                  IN  jaro_scan(a, b, search_range, i + 1,
                                [consumed |-> st.consumed \cup {j},
                                 matches |-> st.matches + 1,
                                 transpositions |->
                                     IF j < st.b_match_index
                                     THEN st.transpositions + 1
                                     ELSE st.transpositions,
                                 b_match_index |-> j])

\* jaro with a single-character shortcut that forgets to compare the characters
jaro_single_char_zero(a, b) ==
    LET a_len == Len(a)
        b_len == Len(b)
    IN  IF a_len = 0 /\ b_len = 0 THEN One
        ELSE IF a_len = 0 \/ b_len = 0 \/ (a_len = 1 /\ b_len = 1) THEN Zero
        ELSE LET st == jaro_scan(a, b, (Max(a_len, b_len) \div 2) - 1, 1,
                                 [consumed |-> {}, matches |-> 0,
                                  transpositions |-> 0, b_match_index |-> 0])
                 m == st.matches
                 t == st.transpositions
             IN  IF m = 0 THEN Zero
                 ELSE Frac(m * m * b_len + m * m * a_len + (m - t) * a_len * b_len,
                           3 * a_len * b_len * m)

\* strsim::jaro
jaro(a, b) ==
    LET a_len == Len(a)
        b_len == Len(b)
    IN  IF a_len = 0 /\ b_len = 0 THEN One
        ELSE IF a_len = 0 \/ b_len = 0 THEN Zero
        ELSE IF a_len = 1 /\ b_len = 1 THEN (IF a = b THEN One ELSE Zero)
        ELSE LET search_range == (Max(a_len, b_len) \div 2) - 1
                 st == jaro_scan(a, b, search_range, 1,
                                 [consumed |-> {}, matches |-> 0,
                                  transpositions |-> 0, b_match_index |-> 0])
                 m == st.matches
                 t == st.transpositions
             IN  IF m = 0 THEN Zero
                 ELSE \* (1/3) * (m/a_len + m/b_len + (m - t)/m)
                      Frac(m * m * b_len + m * m * a_len + (m - t) * a_len * b_len,
                           3 * a_len * b_len * m)

RECURSIVE prefix_length(_, _, _)
prefix_length(a, b, i) ==
    IF i > Len(a) \/ i > Len(b) THEN i - 1
    ELSE IF a[i] # b[i] THEN i - 1
    ELSE prefix_length(a, b, i + 1)

\* jaro_winkler that treats two empty strings like one empty string
jaro_winkler_empty_zero(a, b) ==
    IF Len(a) = 0 \/ Len(b) = 0 THEN Zero
    ELSE LET jaro_distance == jaro(a, b)
             p == prefix_length(a, b, 1)
             d == Frac(10 * jaro_distance.num
                         + p * (jaro_distance.den - jaro_distance.num),
                       10 * jaro_distance.den)
         IN  IF partial_cmp(d, One) \in {"Less", "Equal"} THEN d ELSE One

\* strsim::jaro_winkler
jaro_winkler(a, b) ==
    LET jaro_distance == jaro(a, b)
        p == prefix_length(a, b, 1)
        \* jaro + 0.1 * p * (1 - jaro)
        jaro_winkler_distance ==
            IF IsNaN(jaro_distance) THEN NaN
            ELSE Frac(10 * jaro_distance.num
                        + p * (jaro_distance.den - jaro_distance.num),
                      10 * jaro_distance.den)
    IN  \* `if d <= 1.0 { d } else { 1.0 }`: a NaN compares false
        IF partial_cmp(jaro_winkler_distance, One) \in {"Less", "Equal"}
        THEN jaro_winkler_distance
        ELSE One

\* ---------------------------------------------------------------- scoring
\* a scorer whose similarity is 1 - distance / max(len), with no guard for
\* two empty strings
MatchScore_new_normalized(v, q) ==
    LET d == levenshtein(v, q)
        n == Max(Len(v), Len(q))
    IN  [distance |-> d, similarity |-> Frac(n - d, n)]

\* MatchScore::new
MatchScore_new(v, q) ==
    [distance |-> levenshtein(v, q), similarity |-> jaro_winkler(v, q)]

\* compare with the similarity operands the other way round (ascending)
MatchScore_compare_ascending(a, b) ==
    LET o == partial_cmp(a.similarity, b.similarity)
    IN  IF o = "None" THEN "Panic"
        ELSE IF o # "Equal" THEN o
        ELSE cmp(a.distance, b.distance)

\* MatchScore::compare; "Panic" is the unwrap() of a None partial_cmp
MatchScore_compare(a, b) ==
    LET o == partial_cmp(b.similarity, a.similarity)
    IN  IF o = "None" THEN "Panic"
        ELSE IF o # "Equal" THEN o
        ELSE cmp(a.distance, b.distance)

\* the closure handed to sort_by in dex
dex_compare(a, b) ==
    LET o == partial_cmp(b.jaro_winkler, a.jaro_winkler)
    IN  IF o = "None" THEN "Panic"
        ELSE IF o # "Equal" THEN o
        ELSE cmp(a.levenshtein, b.levenshtein)

\* ---------------------------------------------------------------- Vec
\* insertion that also moves past equal elements (not stable)
RECURSIVE insert_tail_unstable(_, _, _)
insert_tail_unstable(p, x, c) ==
    IF p = <<>> THEN [panic |-> FALSE, v |-> <<x>>]
    ELSE LET last == p[Len(p)]
             o == c[x][last]
         IN  IF o = "Panic" THEN [panic |-> TRUE, v |-> <<>>]
             ELSE IF o \in {"Less", "Equal"}
             THEN LET r == insert_tail_unstable(SubSeq(p, 1, Len(p) - 1), x, c)
                  IN  IF r.panic THEN r
                      ELSE [panic |-> FALSE, v |-> Append(r.v, last)]
             ELSE [panic |-> FALSE, v |-> Append(p, x)]

\* slice::sort_by on a short slice is a stable insertion sort.  It works on
\* the indices of the vector; c[i][j] is the comparator applied to elements
\* i and j.  insert_tail moves element x left past every element it is
\* strictly less than.
RECURSIVE insert_tail(_, _, _)
insert_tail(p, x, c) ==
    IF p = <<>> THEN [panic |-> FALSE, v |-> <<x>>]
    ELSE LET last == p[Len(p)]
             o == c[x][last]
         IN  IF o = "Panic" THEN [panic |-> TRUE, v |-> <<>>]
             ELSE IF o = "Less"
             THEN LET r == insert_tail(SubSeq(p, 1, Len(p) - 1), x, c)
                  IN  IF r.panic THEN r
                      ELSE [panic |-> FALSE, v |-> Append(r.v, last)]
             ELSE [panic |-> FALSE, v |-> Append(p, x)]

RECURSIVE insertion_sort(_, _, _, _)
insertion_sort(p, i, n, c) ==
    IF i > n THEN [panic |-> FALSE, v |-> p]
    ELSE LET r == insert_tail(p, i, c)
         IN  IF r.panic THEN r ELSE insertion_sort(r.v, i + 1, n, c)

\* Vec::sort_by: [panic, v]; no comparison is made on fewer than 2 elements
sort_by(v, c) ==
    IF Len(v) < 2 THEN [panic |-> FALSE, v |-> v]
    ELSE LET r == insertion_sort(<<1>>, 2, Len(v), c)
         IN  IF r.panic THEN r
             ELSE [panic |-> FALSE, v |-> [i \in 1 .. Len(v) |-> v[r.v[i]]]]

\* truncation that keeps one entry too many
truncate_off_by_one(v, len) == IF len + 1 >= Len(v) THEN v ELSE SubSeq(v, 1, len + 1)

\* truncation that keeps the last len entries instead of the first
truncate_keeps_tail(v, len) ==
    IF len >= Len(v) THEN v ELSE SubSeq(v, Len(v) - len + 1, Len(v))

\* Vec::truncate
truncate(v, len) == IF len >= Len(v) THEN v ELSE SubSeq(v, 1, len)

\* ---------------------------------------------------------------- records
\* outcome of deserializing one CSV row: a record, or an error.  The
\* embedded file is an input of the program: its rows are drawn as the reader
\* reaches them, and the reader may be exhausted after any row.
Rows == [ok : {TRUE}, name : Names] \cup {[ok |-> FALSE, name |-> <<>>]}

\* the Pokemon / PokeRecord deserialized from the n-th row; of its fields only
\* the name is kept, and pokedex_number holds the row's position, which
\* identifies the record
Pokemon(row, n) == [pokedex_number |-> n, name |-> row.name]

\* the query used as typed
search_query_raw(q) == q

\* pokedex.rs:134 and main.rs:82
search_query_of(q) == to_lowercase(q)

\* loop body of search_by_name
PokeMatch(pokemon, sq) ==
    [pokemon |-> pokemon, score |-> MatchScore_new(to_lowercase(pokemon.name), sq)]

\* DistanceRecord::new
DistanceRecord_new(poke, q) ==
    LET name == to_lowercase(poke.name)
    IN  [poke |-> poke,
         levenshtein |-> levenshtein(name, q),
         jaro_winkler |-> jaro_winkler(name, q)]

\* -------------------------------------------------------- EggCycleStats
\* the largest value of a u16, the type of egg_cycles, cycles, max_steps and
\* min_steps
U16_MAX == 65535

EGG_CYCLE_FACTOR == 257

\* the value a u16 operation leaves when its exact result x is out of range
\* and the build does not check for overflow
wrapping(x) == x % (U16_MAX + 1)

overflows(x) == x < 0 \/ x > U16_MAX

NoStats == [panic |-> FALSE, cycles |-> 0, max_steps |-> 0, min_steps |-> 0]

\* EggCycleStats::new: the outcomes the build can produce. Each u16 operation
\* whose exact result is out of range panics in a build with overflow checks
\* and wraps in one without; main.rs 233-235 computes max and min by the same
\* expressions on the same type.
EggCycleStats_new(c) ==
    LET max_exact == c * EGG_CYCLE_FACTOR
        sub_exact == c - 1
        mul_exact == wrapping(sub_exact) * EGG_CYCLE_FACTOR
        add_exact == wrapping(mul_exact) + 1
        wrapped == [panic |-> FALSE,
                    cycles |-> c,
                    max_steps |-> wrapping(max_exact),
                    min_steps |-> wrapping(add_exact)]
    IN  IF \/ overflows(max_exact)
           \/ overflows(sub_exact)
           \/ overflows(mul_exact)
           \/ overflows(add_exact)
        THEN {[NoStats EXCEPT !.panic = TRUE], wrapped}
        ELSE {wrapped}

\* ---------------------------------------------------------------- state
VARIABLES
    entry,          \* which entry point runs: "search_by_name", "main", "score",
                    \* "egg"
    cycles,         \* the cycles argument of EggCycleStats::new
    stats,          \* the EggCycleStats it returns
    query,          \* the query argument
    limit,          \* the limit argument of search_by_name
    value,          \* the value argument of MatchScore::new
    csv,            \* rows of POKEDEX_CSV the reader has produced so far
    search_query,   \* local of search_by_name / dex
    results,        \* local Vec<PokeMatch> of search_by_name, then its return value
    poke_distances, \* local Vec<DistanceRecord> of dex
    score,          \* the MatchScore returned to the "score" entry
    pc,             \* position in the running function
    steps,          \* statements executed so far: "sort", "truncate", "first"
    stdout,         \* what has been printed, in order
    exit_status     \* -1 while running, else the process exit status

vars == <<entry, cycles, stats, query, limit, value, csv, search_query, results,
          poke_distances, score, pc, steps, stdout, exit_status>>

Init ==
    /\ \/ /\ entry = "search_by_name"
          /\ query \in Queries
          /\ limit \in Limits
          /\ value = <<>>
          /\ cycles = 0
       \/ /\ entry = "main"
          /\ query \in Queries
          /\ limit = 0
          /\ value = <<>>
          /\ cycles = 0
       \/ /\ entry = "score"
          /\ query \in ScoreStrings
          /\ value \in ScoreStrings
          /\ limit = 0
          /\ cycles = 0
       \/ /\ entry = "egg"
          /\ cycles \in 0 .. U16_MAX
          /\ query = <<>>
          /\ value = <<>>
          /\ limit = 0
    /\ stats = NoStats
    /\ csv = <<>>
    /\ search_query = <<>>
    /\ results = <<>>
    /\ poke_distances = <<>>
    /\ score = [distance |-> 0, similarity |-> Zero]
    /\ pc = "call"
    /\ steps = {}
    /\ stdout = <<>>
    /\ exit_status = -1

\* ------------------------------------------------------- MatchScore::new
ScoreCall ==
    /\ entry = "score"
    /\ pc = "call"
    /\ score' = MatchScore_new(value, query)
    /\ pc' = "scored"
    /\ UNCHANGED <<entry, cycles, stats, query, limit, value, csv, search_query, results,
                   poke_distances, steps, stdout, exit_status>>

\* ------------------------------------------------------- search_by_name
\* lines 134-136
SbnCall ==
    /\ entry = "search_by_name"
    /\ pc = "call"
    /\ search_query' = search_query_of(query)
    /\ results' = <<>>
    /\ pc' = "loop"
    /\ UNCHANGED <<entry, cycles, stats, query, limit, value, csv, poke_distances, score,
                   steps, stdout, exit_status>>

\* lines 138-145: one iteration; result.unwrap() panics on a row that fails
\* to deserialize
SbnReadRow ==
    /\ entry = "search_by_name"
    /\ pc = "loop"
    /\ Len(csv) < MaxRows
    /\ \E row \in Rows :
          /\ csv' = Append(csv, row)
          /\ IF row.ok
             THEN /\ results' = Append(results,
                                       PokeMatch(Pokemon(row, Len(csv) + 1), search_query))
                  /\ pc' = "loop"
                  /\ UNCHANGED exit_status
             ELSE /\ pc' = "panicked"
                  /\ exit_status' = 101
                  /\ UNCHANGED results
    /\ UNCHANGED <<entry, cycles, stats, query, limit, value, search_query, poke_distances,
                   score, steps, stdout>>

\* line 147, reached when the reader is exhausted
SbnSort ==
    /\ entry = "search_by_name"
    /\ pc = "loop"
    /\ LET c == [i \in 1 .. Len(results) |-> [j \in 1 .. Len(results) |->
                    MatchScore_compare(results[i].score, results[j].score)]]
           r == sort_by(results, c)
       IN  IF r.panic
           THEN /\ pc' = "panicked"
                /\ exit_status' = 101
                /\ UNCHANGED <<results, steps>>
           ELSE /\ results' = r.v
                /\ pc' = "truncate"
                /\ steps' = steps \cup {"sort"}
                /\ UNCHANGED exit_status
    /\ UNCHANGED <<entry, cycles, stats, query, limit, value, csv, search_query,
                   poke_distances, score, stdout>>

\* lines 148-149
SbnTruncate ==
    /\ entry = "search_by_name"
    /\ pc = "truncate"
    /\ results' = truncate(results, limit)
    /\ pc' = "returned"
    /\ steps' = steps \cup {"truncate"}
    /\ UNCHANGED <<entry, cycles, stats, query, limit, value, csv, search_query,
                   poke_distances, score, stdout, exit_status>>

\* ------------------------------------------------------- main / dex
Line(kind, text) == [kind |-> kind, text |-> text]

\* main.rs:80-84
DexCall ==
    /\ entry = "main"
    /\ pc = "call"
    /\ stdout' = Append(stdout, Line("searching", query))
    /\ search_query' = search_query_of(query)
    /\ poke_distances' = <<>>
    /\ pc' = "loop"
    /\ UNCHANGED <<entry, cycles, stats, query, limit, value, csv, results, score, steps,
                   exit_status>>

\* an iteration that skips a row that fails to deserialize
DexReadRow_skip_errors ==
    /\ entry = "main"
    /\ pc = "loop"
    /\ Len(csv) < MaxRows
    /\ \E row \in Rows :
          /\ csv' = Append(csv, row)
          /\ IF row.ok
             THEN poke_distances' =
                      Append(poke_distances,
                             DistanceRecord_new(Pokemon(row, Len(csv) + 1), search_query))
             ELSE UNCHANGED poke_distances
          /\ pc' = "loop"
    /\ UNCHANGED <<entry, cycles, stats, query, limit, value, search_query, results, score,
                   steps, stdout, exit_status>>

\* main.rs:86-90: one iteration; `result?` returns the error from dex
DexReadRow ==
    /\ entry = "main"
    /\ pc = "loop"
    /\ Len(csv) < MaxRows
    /\ \E row \in Rows :
          /\ csv' = Append(csv, row)
          /\ IF row.ok
             THEN /\ poke_distances' =
                        Append(poke_distances,
                               DistanceRecord_new(Pokemon(row, Len(csv) + 1), search_query))
                  /\ pc' = "loop"
             ELSE /\ pc' = "err"
                  /\ UNCHANGED poke_distances
    /\ UNCHANGED <<entry, cycles, stats, query, limit, value, search_query, results, score,
                   steps, stdout, exit_status>>

\* main.rs:92-97, reached when the reader is exhausted
DexSort ==
    /\ entry = "main"
    /\ pc = "loop"
    /\ LET c == [i \in 1 .. Len(poke_distances) |-> [j \in 1 .. Len(poke_distances) |->
                    dex_compare(poke_distances[i], poke_distances[j])]]
           r == sort_by(poke_distances, c)
       IN  IF r.panic
           THEN /\ pc' = "panicked"
                /\ exit_status' = 101
                /\ UNCHANGED <<poke_distances, steps>>
           ELSE /\ poke_distances' = r.v
                /\ pc' = "first"
                /\ steps' = steps \cup {"sort"}
                /\ UNCHANGED exit_status
    /\ UNCHANGED <<entry, cycles, stats, query, limit, value, csv, search_query, results,
                   score, stdout>>

\* main.rs:104-106: first() is None
DexNoMatch ==
    /\ entry = "main"
    /\ pc = "first"
    /\ poke_distances = <<>>
    /\ stdout' = Append(stdout, Line("failure", <<>>))
    /\ steps' = steps \cup {"first"}
    /\ pc' = "ok"
    /\ UNCHANGED <<entry, cycles, stats, query, limit, value, csv, search_query, results,
                   poke_distances, score, exit_status>>

\* main.rs:104-258: first() is Some(p); the image is printed, or its
\* download fails and a failure line is printed, or decoding/printing panics
DexReport ==
    /\ entry = "main"
    /\ pc = "first"
    /\ poke_distances # <<>>
    /\ steps' = steps \cup {"first"}
    /\ \E image \in {"printed", "failure", "panic"} :
          IF image = "panic"
          THEN /\ pc' = "panicked"
               /\ exit_status' = 101
               /\ UNCHANGED stdout
          ELSE /\ stdout' = Append(IF image = "failure"
                                   THEN Append(stdout, Line("failure", <<>>))
                                   ELSE stdout,
                                   Line("report", poke_distances[1].poke.name))
               /\ pc' = "ok"
               /\ UNCHANGED exit_status
    /\ UNCHANGED <<entry, cycles, stats, query, limit, value, csv, search_query, results,
                   poke_distances, score>>

\* main.rs:349-354: dex returned Ok
MainOk ==
    /\ entry = "main"
    /\ pc = "ok"
    /\ pc' = "exited"
    /\ exit_status' = 0
    /\ UNCHANGED <<entry, cycles, stats, query, limit, value, csv, search_query, results,
                   poke_distances, score, steps, stdout>>

\* main.rs:349-352: dex returned Err
MainErr ==
    /\ entry = "main"
    /\ pc = "err"
    /\ stdout' = Append(stdout, Line("error", <<>>))
    /\ pc' = "exited"
    /\ exit_status' = 1
    /\ UNCHANGED <<entry, cycles, stats, query, limit, value, csv, search_query, results,
                   poke_distances, score, steps>>

\* ---------------------------------------------------- EggCycleStats::new
\* pokedex.rs lines 12-22, called by Pokemon::egg_cycle_stats with the
\* record's egg_cycles
EggNew ==
    /\ entry = "egg"
    /\ pc = "call"
    /\ \E r \in EggCycleStats_new(cycles) :
          /\ stats' = r
          /\ IF r.panic
             THEN /\ pc' = "panicked"
                  /\ exit_status' = 101
             ELSE /\ pc' = "returned"
                  /\ UNCHANGED exit_status
    /\ UNCHANGED <<entry, cycles, query, limit, value, csv, search_query,
                   results, poke_distances, score, steps, stdout>>

Next ==
    \/ ScoreCall
    \/ SbnCall
    \/ SbnReadRow
    \/ SbnSort
    \/ SbnTruncate
    \/ DexCall
    \/ DexReadRow
    \/ DexSort
    \/ DexNoMatch
    \/ DexReport
    \/ MainOk
    \/ MainErr
    \/ EggNew

Spec == Init /\ [][Next]_vars

TypeOK ==
    /\ entry \in {"search_by_name", "main", "score", "egg"}
    /\ cycles \in 0 .. U16_MAX
    /\ limit \in Limits
    /\ Len(csv) <= MaxRows
    /\ exit_status \in {-1, 0, 1, 101}

\* ================================================================ claims
Returned == entry = "search_by_name" /\ pc = "returned"
Scored == entry = "score" /\ pc = "scored"
DexSorted == entry = "main" /\ "sort" \in steps

SimGt(x, y) == x.num * y.den > y.num * x.den

\* s is strictly better than t: similarity descending, then distance ascending
Better(s, t) ==
    \/ SimGt(s.similarity, t.similarity)
    \/ /\ s.similarity = t.similarity
       /\ s.distance < t.distance

DexScore(d) == [distance |-> d.levenshtein, similarity |-> d.jaro_winkler]

SortedBestFirst(scores) ==
    \A i \in 1 .. Len(scores) - 1 :
        \/ SimGt(scores[i].similarity, scores[i + 1].similarity)
        \/ /\ scores[i].similarity = scores[i + 1].similarity
           /\ scores[i].distance <= scores[i + 1].distance

ResultScores == [i \in 1 .. Len(results) |-> results[i].score]
DexScores == [i \in 1 .. Len(poke_distances) |-> DexScore(poke_distances[i])]

C2_Length ==
    Returned => Len(results) = Min(Len(csv), limit)

C2_Witness ==
    /\ Returned
    /\ Len(csv) = 2
    /\ limit = 1
    /\ Len(results) = 1

RowScore(i) == MatchScore_new(to_lowercase(csv[i].name), to_lowercase(query))
ResultIds == {results[i].pokemon.pokedex_number : i \in 1 .. Len(results)}

\* C3: the result is the top-K of the whole dataset: every row is scored
\* before truncation, result entries are distinct input entities, and no
\* entity left out is strictly better than an entity that is in the result.
C3_TopK ==
    /\ (entry = "search_by_name" /\ pc = "truncate") =>
           /\ Len(results) = Len(csv)
           /\ ResultIds = 1 .. Len(csv)
    /\ Returned =>
           /\ \A i \in 1 .. Len(results) :
                  LET n == results[i].pokemon.pokedex_number
                  IN  /\ n \in 1 .. Len(csv)
                      /\ results[i].pokemon = Pokemon(csv[n], n)
           /\ \A i, j \in 1 .. Len(results) :
                  i # j => results[i].pokemon.pokedex_number
                             # results[j].pokemon.pokedex_number
           /\ \A n \in (1 .. Len(csv)) \ ResultIds :
                  \A i \in 1 .. Len(results) :
                      ~ Better(RowScore(n), results[i].score)

\* the later row is strictly better and is the one kept
C3_Witness ==
    /\ Returned
    /\ Len(csv) = 2
    /\ limit = 1
    /\ Len(results) = 1
    /\ results[1].pokemon.pokedex_number = 2
    /\ Better(RowScore(2), RowScore(1))

StableOrder(scores, ids) ==
    \A i, j \in 1 .. Len(scores) :
        (i < j /\ scores[i] = scores[j]) => ids[i] < ids[j]

\* C4: entities with the same similarity and the same distance keep their
\* input order in the sorted list, so the result is fully determined by the
\* entity sequence, the query and the limit.
C4_Stable ==
    /\ (entry = "search_by_name" /\ pc \in {"truncate", "returned"}) =>
           StableOrder(ResultScores,
                       [i \in 1 .. Len(results) |-> results[i].pokemon.pokedex_number])
    /\ DexSorted =>
           StableOrder(DexScores,
                       [i \in 1 .. Len(poke_distances) |->
                            poke_distances[i].poke.pokedex_number])

\* two different names tie on both metrics, behind nothing else
C4_Witness ==
    /\ Returned
    /\ Len(results) = 2
    /\ results[1].score = results[2].score
    /\ results[1].pokemon.name # results[2].pokemon.name
    /\ results[1].score.distance > 0

Exact == [distance |-> 0, similarity |-> One]

\* C5: a non-empty string scored against itself has distance 0 and
\* similarity 1.0; and when some entity's lower-cased name equals the
\* lower-cased query and limit >= 1, the first result is such an entity with
\* distance 0 and similarity 1.0.
C5_ExactMatch ==
    /\ (Scored /\ value # <<>> /\ value = query) => score = Exact
    /\ (Returned /\ limit >= 1
          /\ \E n \in 1 .. Len(csv) : to_lowercase(csv[n].name) = to_lowercase(query)) =>
           /\ Len(results) >= 1
           /\ results[1].score = Exact
           /\ to_lowercase(results[1].pokemon.name) = to_lowercase(query)

\* the exact match is the second row, differs from the query in case, and wins
C5_Witness ==
    /\ Returned
    /\ limit >= 1
    /\ Len(csv) = 2
    /\ query # <<>>
    /\ csv[2].name # query
    /\ to_lowercase(csv[1].name) # to_lowercase(query)
    /\ to_lowercase(csv[2].name) = to_lowercase(query)
    /\ results[1].pokemon.pokedex_number = 2

AllRowsOk == \A n \in 1 .. Len(csv) : csv[n].ok

\* C6: ranking never fails: when every row deserializes, neither
\* search_by_name nor the sort in dex panics (no similarity is NaN, so the
\* comparator's unwrap never fails), and an empty dataset gives an empty list.
C6_RankNeverFails ==
    /\ (entry = "search_by_name" /\ AllRowsOk) => pc # "panicked"
    /\ (entry = "main" /\ pc = "panicked") => "sort" \in steps
    /\ \A i \in 1 .. Len(results) : ~ IsNaN(results[i].score.similarity)
    /\ \A i \in 1 .. Len(poke_distances) : ~ IsNaN(poke_distances[i].jaro_winkler)
    /\ Scored => ~ IsNaN(score.similarity)
    /\ (Returned /\ csv = <<>>) => results = <<>>

\* empty query against a dataset holding an empty name, limit above its size
C6_Witness ==
    /\ Returned
    /\ query = <<>>
    /\ Len(csv) = 2
    /\ csv[1].name = <<>>
    /\ limit = 3
    /\ Len(results) = 2

\* C7: a row with an empty name is rejected at load time: no entity with an
\* empty name is ever scored and put in the list to rank.
C7_EmptyNameRejected ==
    /\ \A i \in 1 .. Len(results) : results[i].pokemon.name # <<>>
    /\ \A i \in 1 .. Len(poke_distances) : poke_distances[i].poke.name # <<>>

LoadFailed == \E n \in 1 .. Len(csv) : ~ csv[n].ok

\* C8: when a row fails to deserialize, at any position, nothing is sorted,
\* no best match is selected and no match or no-match line is printed:
\* dex returns the error and main exits with status 1, and search_by_name
\* panics without returning a list.
C8_LoadFailureAborts ==
    /\ LoadFailed =>
           /\ steps = {}
           /\ \A i \in 1 .. Len(stdout) : stdout[i].kind \in {"searching", "error"}
           /\ entry = "search_by_name" => pc = "panicked"
           /\ entry = "main" => /\ pc \in {"err", "exited"}
                                /\ pc = "exited" => exit_status = 1
    /\ exit_status = 1 => LoadFailed

\* a good row was read before the bad one, and main has exited with 1
C8_Witness ==
    /\ entry = "main"
    /\ pc = "exited"
    /\ exit_status = 1
    /\ Len(csv) = 2
    /\ Len(poke_distances) = 1

\* C9 as stated: when at least one of the two strings is empty, the distance
\* is the length of the other string and the similarity is 0.0, also when
\* both are empty.
C9_EmptyIsZero ==
    (Scored /\ (value = <<>> \/ query = <<>>)) =>
        /\ score.distance = Len(value) + Len(query)
        /\ score.similarity = Zero

\* C9 (amended): when exactly one of the two strings is empty, the distance
\* is the length of the other string and the similarity is 0.0; when both are
\* empty the distance is 0 and the similarity is 1.0.
C9_EmptyBoundary ==
    /\ (Scored /\ (value = <<>> \/ query = <<>>)) =>
           score.distance = Len(value) + Len(query)
    /\ (Scored /\ (value = <<>> \/ query = <<>>) /\ value # query) =>
           score.similarity = Zero
    /\ (Scored /\ value = <<>> /\ query = <<>>) =>
           score.similarity = One

C9_Witness ==
    /\ Scored
    /\ value = <<>>
    /\ query = <<>>

\* search_by_name as a function of the rows, the query and the limit
rank(rows, q, k) ==
    LET sq == to_lowercase(q)
        all == <<>> \o [n \in 1 .. Len(rows) |-> PokeMatch(Pokemon(rows[n], n), sq)]
        c == [i \in 1 .. Len(all) |-> [j \in 1 .. Len(all) |->
                 MatchScore_compare(all[i].score, all[j].score)]]
    IN  truncate(sort_by(all, c).v, k)

RECURSIVE strip(_)
strip(s) ==
    IF s = <<>> THEN <<>>
    ELSE IF Head(s) = " " THEN strip(Tail(s))
    ELSE <<Head(s)>> \o strip(Tail(s))

\* C10: every entry is scored, when it is pushed, as MatchScore::new(
\* lowercase(name), lowercase(query)) and nothing else is done to either
\* string: the list returned for a query is the list for its lower-cased
\* form, so queries that differ only in letter case give the identical list,
\* while a name that differs from the query in whitespace is scored as a
\* different string.
C10_LowercaseOnly ==
    /\ (entry = "search_by_name" /\ pc = "loop") =>
           \A i \in 1 .. Len(results) :
               results[i].score = MatchScore_new(to_lowercase(results[i].pokemon.name),
                                                 to_lowercase(query))
    /\ (entry = "main" /\ pc = "loop") =>
           \A i \in 1 .. Len(poke_distances) :
               DexScore(poke_distances[i])
                   = MatchScore_new(to_lowercase(poke_distances[i].poke.name),
                                    to_lowercase(query))
    /\ Returned => results = rank(csv, to_lowercase(query), limit)
    /\ \A i \in 1 .. Len(results) :
           LET name == to_lowercase(results[i].pokemon.name)
           IN  (name # to_lowercase(query) /\ strip(name) = strip(to_lowercase(query)))
                   => results[i].score.distance > 0

\* an upper-case query against its lower-case and its upper-case form: both
\* are exact matches
C10_Witness ==
    /\ Returned
    /\ Len(results) = 2
    /\ query # to_lowercase(query)
    /\ results[1].pokemon.name = to_lowercase(query)
    /\ results[2].pokemon.name = query
    /\ results[1].score = Exact
    /\ results[2].score = Exact

\* C11: the distance is symmetric in its two arguments, and it is 0 exactly
\* when the two strings are identical; the same holds of the distance of every
\* entry pushed by search_by_name, between the lower-cased name and query.
C11_DistanceSymmetricZeroIffEqual ==
    /\ Scored => /\ score.distance = levenshtein(query, value)
                 /\ score.distance = 0 <=> value = query
    /\ (entry = "search_by_name" /\ pc = "loop") =>
           \A i \in 1 .. Len(results) :
               LET name == to_lowercase(results[i].pokemon.name)
               IN  /\ results[i].score.distance = levenshtein(search_query, name)
                   /\ results[i].score.distance = 0 <=> name = search_query

\* two different strings of different lengths, needing more than the length
\* difference in edits
C11_Witness ==
    /\ Scored
    /\ Len(value) > Len(query)
    /\ Len(query) >= 2
    /\ score.distance > Len(value) - Len(query)
    /\ score.distance = levenshtein(query, value)

\* C12: for every cycles a u16 can hold, EggCycleStats::new returns, with
\* cycles as given, max_steps = cycles * 257 and min_steps = (cycles - 1) * 257
\* + 1, so that min_steps <= max_steps and max_steps - min_steps = 256.
C12_EggStepsExact ==
    (entry = "egg" /\ pc # "call") =>
        /\ pc = "returned"
        /\ stats.cycles = cycles
        /\ stats.max_steps = cycles * EGG_CYCLE_FACTOR
        /\ stats.min_steps = (cycles - 1) * EGG_CYCLE_FACTOR + 1
        /\ stats.min_steps <= stats.max_steps
        /\ stats.max_steps - stats.min_steps = 256

====
